---- MODULE Spec2Model ----
(***************************************************************************)
(* Model of the antifragile crate (src/src/antifragile.rs): the convexity  *)
(* test of TriadAnalysis over an entity's payoff, the Triad type with its  *)
(* conversions, and the Verified wrapper.                                  *)
(*                                                                         *)
(* Stressor and Payoff are generic in the source (Copy + Add + Sub, and    *)
(* Copy + Add + PartialOrd).  The model instantiates them with three       *)
(* number types, scaled down so that every value can be enumerated:        *)
(*   "float"    a binary floating point format with MantBits bits of       *)
(*              mantissa and exponents 0..MaxExp, round-to-nearest-even,   *)
(*              overflow to +-inf, and NaN (the shape of f64; one zero);   *)
(*   "signed"   two's complement integers of IntBits bits (the shape of    *)
(*              i8..i64);                                                  *)
(*   "unsigned" integers of IntBits bits (the shape of u8..u64).           *)
(* An integer operation that leaves the type's range panics when the       *)
(* build checks overflow ("debug") and wraps when it does not ("release"). *)
(***************************************************************************)
EXTENDS Integers, Sequences, FiniteSets

VARIABLES
    ty,       \* the number type of Stressor and Payoff
    build,    \* "debug" (overflow checks on) or "release" (wrapping)
    self,     \* the entity: its payoff function
    at,       \* the operating point
    delta,    \* the perturbation
    epsilon,  \* the tolerance (classify_with_tolerance), the threshold (is_stable)
    arg,      \* the argument of a Triad operation (a Vec, a byte, a Triad, a
              \* string), the low and high of is_stable
    op,       \* the operation called
    pc,       \* "call" before the operation has run, "ret" after it
    ret,      \* what the operation returned
    verified, \* the Verified value: its inner and classification fields
    checked,  \* the (at, delta) of the last check or re_verify that completed
    evals,    \* the points at which the operation has evaluated payoff
    entries,  \* AdaptiveCache: the entry stored for each query, if any
    now,      \* the clock (Instant::now())
    task,     \* each thread or request handler: the call it is in, its
              \* position in it and its locals
    calls,    \* the number of calls made so far
    counters, \* ServiceMetrics: total_requests, cache_hits, cache_misses
    history   \* ServiceMetrics: the history entries, oldest first

\* The state of the crate's own operations, and that of the example service
\* (src/examples/adaptive-pricing-api).
engine == <<ty, build, self, at, delta, epsilon, verified, checked, evals>>
service == <<entries, now, task, calls, counters, history>>

vars == <<ty, build, self, at, delta, epsilon, arg, op, pc, ret,
          verified, checked, evals,
          entries, now, task, calls, counters, history>>

\* No service is running.
NoService ==
    /\ entries = << >> /\ now = 0 /\ task = << >> /\ calls = 0
    /\ counters = << >> /\ history = << >>

----------------------------------------------------------------------------
(* Bounds of the number types.                                             *)

IntBits == 3
MantBits == 2
MaxExp == 2

\* The largest perturbation, tolerance and LinearFn coefficient drawn, and the
\* longest Vec<Triad> sorted.
MaxDelta == 2
MaxEpsilon == 1
MaxParam == 2
MaxLen == 3

\* The largest operating point and perturbation a Verified value is checked at.
MaxPoint == 1

\* u8::MAX
U8Max == 255

RECURSIVE Pow2(_)
Pow2(n) == IF n = 0 THEN 1 ELSE 2 * Pow2(n - 1)

Abs(n) == IF n < 0 THEN -n ELSE n

----------------------------------------------------------------------------
(* Values.  A value is a record: a finite number, an infinity (v is its    *)
(* sign) or NaN.  The integer types only have finite values.               *)

Fin(n) == [k |-> "fin", v |-> n]
PInf == [k |-> "inf", v |-> 1]
NInf == [k |-> "inf", v |-> -1]
NaN == [k |-> "nan", v |-> 0]

NumTypes == {"float", "signed", "unsigned"}

MinInt(T) == IF T = "signed" THEN -Pow2(IntBits - 1) ELSE 0
MaxInt(T) == IF T = "signed" THEN Pow2(IntBits - 1) - 1 ELSE Pow2(IntBits) - 1
InRange(T, n) == MinInt(T) <= n /\ n <= MaxInt(T)

\* Two's complement wrap-around of the exact result n.
Wrap(T, n) ==
    LET m == n % Pow2(IntBits)
    IN  IF T = "signed" /\ m >= Pow2(IntBits - 1) THEN m - Pow2(IntBits) ELSE m

\* The largest finite float.
MaxFinite == (Pow2(MantBits) - 1) * Pow2(MaxExp)

\* The spacing of the floats around the magnitude x.
RECURSIVE QuantumFrom(_, _)
QuantumFrom(x, e) ==
    IF x < Pow2(MantBits + e) THEN Pow2(e) ELSE QuantumFrom(x, e + 1)

\* Round-to-nearest, ties to the even mantissa, of the magnitude x.
RoundMag(x) ==
    LET q == QuantumFrom(x, 0)
        lo == (x \div q) * q
        r == x - lo
    IN  IF 2 * r < q THEN lo
        ELSE IF 2 * r > q THEN lo + q
        ELSE IF (lo \div q) % 2 = 0 THEN lo ELSE lo + q

\* The float nearest to the exact result n; beyond MaxFinite it is an infinity.
Round(n) ==
    LET m == RoundMag(Abs(n))
    IN  IF m > MaxFinite THEN (IF n < 0 THEN NInf ELSE PInf)
        ELSE Fin(IF n < 0 THEN -m ELSE m)

\* Whether the exact result n is a value of type T as it stands.
Representable(T, n) ==
    IF T = "float" THEN Abs(n) <= MaxFinite /\ RoundMag(Abs(n)) = Abs(n)
    ELSE InRange(T, n)

FloatFinite == {Fin(n) : n \in {i \in -MaxFinite..MaxFinite : Representable("float", i)}}
SignedValues == {Fin(n) : n \in MinInt("signed")..MaxInt("signed")}
UnsignedValues == {Fin(n) : n \in MinInt("unsigned")..MaxInt("unsigned")}

FiniteValues(T) ==
    CASE T = "float" -> FloatFinite
      [] T = "signed" -> SignedValues
      [] T = "unsigned" -> UnsignedValues

----------------------------------------------------------------------------
(* Arithmetic and comparison of the number types: Add, Sub (Stressor),     *)
(* Add, Sub, PartialOrd (Payoff), and the multiplication the test          *)
(* entities use.                                                           *)

neg(a) == [a EXCEPT !.v = -a.v]

add(T, a, b) ==
    IF T # "float" THEN Fin(Wrap(T, a.v + b.v))
    ELSE IF a.k = "nan" \/ b.k = "nan" THEN NaN
    ELSE IF a.k = "inf" /\ b.k = "inf" THEN (IF a.v = b.v THEN a ELSE NaN)
    ELSE IF a.k = "inf" THEN a
    ELSE IF b.k = "inf" THEN b
    ELSE Round(a.v + b.v)

sub(T, a, b) ==
    IF T # "float" THEN Fin(Wrap(T, a.v - b.v)) ELSE add(T, a, neg(b))

mul(T, a, b) ==
    IF T # "float" THEN Fin(Wrap(T, a.v * b.v))
    ELSE IF a.k = "nan" \/ b.k = "nan" THEN NaN
    ELSE IF a.k = "inf" \/ b.k = "inf"
         THEN (IF a.v = 0 \/ b.v = 0 THEN NaN
               ELSE IF (a.v < 0) = (b.v < 0) THEN PInf ELSE NInf)
    ELSE Round(a.v * b.v)

\* An integer operation whose exact result is out of range: a panic under
\* overflow checks, a wrap-around without them.
add_overflows(T, a, b) == T # "float" /\ ~InRange(T, a.v + b.v)
sub_overflows(T, a, b) == T # "float" /\ ~InRange(T, a.v - b.v)
mul_overflows(T, a, b) == T # "float" /\ ~InRange(T, a.v * b.v)

\* PartialOrd: NaN is unordered with everything, itself included.
Ord(a) == IF a.k = "inf" THEN a.v * (MaxFinite + 1) ELSE a.v
Ordered(a, b) == a.k # "nan" /\ b.k # "nan"
gt(a, b) == Ordered(a, b) /\ Ord(a) > Ord(b)
lt(a, b) == Ordered(a, b) /\ Ord(a) < Ord(b)
ge(a, b) == Ordered(a, b) /\ Ord(a) >= Ord(b)
le(a, b) == Ordered(a, b) /\ Ord(a) <= Ord(b)
eq(a, b) == Ordered(a, b) /\ Ord(a) = Ord(b)

----------------------------------------------------------------------------
(* Triad: the three categories.  The enum is repr(u8) with implicit        *)
(* discriminants: a variant's discriminant is its place in the declaration.*)

Variants == <<"Fragile", "Robust", "Antifragile">>
Triad == {Variants[i] : i \in 1..Len(Variants)}

ALL == <<"Fragile", "Robust", "Antifragile">>

\* The variants declared in the opposite order: Antifragile = 0.
rank_reversed(t) == Len(Variants) - (CHOOSE i \in 1..Len(Variants) : Variants[i] = t)

\* self as u8
rank(t) == (CHOOSE i \in 1..Len(Variants) : Variants[i] = t) - 1

\* The operands swapped: other.rank().cmp(&self.rank()).
cmp_swapped(a, b) ==
    IF rank(b) < rank(a) THEN "Less"
    ELSE IF rank(a) = rank(b) THEN "Equal"
    ELSE "Greater"

\* Ord::cmp: self.rank().cmp(&other.rank())
cmp(a, b) ==
    IF rank(a) < rank(b) THEN "Less"
    ELSE IF rank(a) = rank(b) THEN "Equal"
    ELSE "Greater"

\* impl From<Triad> for u8
u8_from(t) == rank(t)

Ok(t) == [tag |-> "Ok", v |-> t]
Err(e) == [tag |-> "Err", v |-> e]

\* The match arms in the opposite order: 0 is Antifragile.
try_from_reversed(value) ==
    CASE value = 0 -> Ok("Antifragile")
      [] value = 1 -> Ok("Robust")
      [] value = 2 -> Ok("Fragile")
      [] OTHER -> Err(value)

\* The error not carrying the byte it was given: InvalidTriadValue(u8::MAX).
try_from_lossy(value) ==
    CASE value = 0 -> Ok("Fragile")
      [] value = 1 -> Ok("Robust")
      [] value = 2 -> Ok("Antifragile")
      [] OTHER -> Err(U8Max)

\* impl TryFrom<u8> for Triad; the error is InvalidTriadValue(n).
try_from(value) ==
    CASE value = 0 -> Ok("Fragile")
      [] value = 1 -> Ok("Robust")
      [] value = 2 -> Ok("Antifragile")
      [] OTHER -> Err(value)

\* Every variant its own opposite.
opposite_identity(t) == t

\* Triad::opposite
opposite(t) ==
    CASE t = "Antifragile" -> "Fragile"
      [] t = "Fragile" -> "Antifragile"
      [] t = "Robust" -> "Robust"

\* Triad::is_antifragile, is_fragile, is_robust: matches!(self, ...)
triad_is_antifragile(t) == t = "Antifragile"
triad_is_fragile(t) == t = "Fragile"
triad_is_robust(t) == t = "Robust"

\* A &str is the sequence of its characters; a character is written as a
\* string of length one, or as its code point when it is not ASCII
\* ("U+017F" is the long s, which Unicode case folding takes to "s").
AsciiLower == <<"a", "b", "c", "d", "e", "f", "g", "h", "i", "j", "k", "l", "m",
                "n", "o", "p", "q", "r", "s", "t", "u", "v", "w", "x", "y", "z">>
AsciiUpper == <<"A", "B", "C", "D", "E", "F", "G", "H", "I", "J", "K", "L", "M",
                "N", "O", "P", "Q", "R", "S", "T", "U", "V", "W", "X", "Y", "Z">>

\* u8::to_ascii_lowercase on a character: only A..Z change.
to_ascii_lowercase(c) ==
    IF \E i \in 1..Len(AsciiUpper) : AsciiUpper[i] = c
    THEN AsciiLower[CHOOSE i \in 1..Len(AsciiUpper) : AsciiUpper[i] = c]
    ELSE c

\* The comparison without the case folding: s == t.
eq_exact(s, t) == s = t

\* str::eq_ignore_ascii_case: the same length, and the same characters once
\* each is taken to ASCII lower case.
eq_ignore_ascii_case(s, t) ==
    /\ Len(s) = Len(t)
    /\ \A i \in 1..Len(s) : to_ascii_lowercase(s[i]) = to_ascii_lowercase(t[i])

\* impl From<Triad> for &'static str
str_from(t) ==
    CASE t = "Antifragile" -> <<"a", "n", "t", "i", "f", "r", "a", "g", "i", "l", "e">>
      [] t = "Fragile" -> <<"f", "r", "a", "g", "i", "l", "e">>
      [] t = "Robust" -> <<"r", "o", "b", "u", "s", "t">>

ParseTriadError == "ParseTriadError"

\* impl FromStr for Triad
from_str(s) ==
    IF eq_ignore_ascii_case(s, <<"a", "n", "t", "i", "f", "r", "a", "g", "i", "l", "e">>)
    THEN Ok("Antifragile")
    ELSE IF eq_ignore_ascii_case(s, <<"f", "r", "a", "g", "i", "l", "e">>)
    THEN Ok("Fragile")
    ELSE IF eq_ignore_ascii_case(s, <<"r", "o", "b", "u", "s", "t">>)
    THEN Ok("Robust")
    ELSE Err(ParseTriadError)

\* Vec<Triad>::sort(): a stable sort by Ord::cmp.  x goes behind every element
\* that is not Greater than it.
RECURSIVE insert(_, _)
insert(v, x) ==
    IF v = << >> THEN <<x>>
    ELSE IF cmp(v[Len(v)], x) = "Greater"
         THEN Append(insert(SubSeq(v, 1, Len(v) - 1), x), v[Len(v)])
         ELSE Append(v, x)

RECURSIVE sort(_)
sort(v) ==
    IF v = << >> THEN << >>
    ELSE insert(sort(SubSeq(v, 1, Len(v) - 1)), v[Len(v)])

----------------------------------------------------------------------------
(* Entities: implementations of the Antifragile trait.                     *)
(*   Generic   any payoff function: tbl is its graph at the points the     *)
(*             call samples (one value per point: it is deterministic);    *)
(*   ConvexFn  payoff(x) = x * x;                                          *)
(*   LinearFn  payoff(x) = slope * x + intercept.                          *)

Generic(tbl) ==
    [fn |-> "Generic", slope |-> Fin(0), intercept |-> Fin(0), tbl |-> tbl]
ConvexFn ==
    [fn |-> "ConvexFn", slope |-> Fin(0), intercept |-> Fin(0), tbl |-> << >>]
LinearFn(slope, intercept) ==
    [fn |-> "LinearFn", slope |-> slope, intercept |-> intercept, tbl |-> << >>]

\* ConvexFn doubling instead of squaring.
payoff_doubled(T, e, x) ==
    CASE e.fn = "Generic" -> e.tbl[x]
      [] e.fn = "ConvexFn" -> add(T, x, x)
      [] e.fn = "LinearFn" -> add(T, mul(T, e.slope, x), e.intercept)

payoff(T, e, x) ==
    CASE e.fn = "Generic" -> e.tbl[x]
      [] e.fn = "ConvexFn" -> mul(T, x, x)
      [] e.fn = "LinearFn" -> add(T, mul(T, e.slope, x), e.intercept)

\* The entity's own arithmetic leaves the range of an integer type.
payoff_overflows(T, e, x) ==
    CASE e.fn = "Generic" -> FALSE
      [] e.fn = "ConvexFn" -> mul_overflows(T, x, x)
      [] e.fn = "LinearFn" ->
            \/ mul_overflows(T, e.slope, x)
            \/ add_overflows(T, mul(T, e.slope, x), e.intercept)

\* The payoff returned as it is, not doubled.
twin_single(T, r) == r

\* The default twin: r + r.
twin(T, r) == add(T, r, r)

----------------------------------------------------------------------------
(* TriadAnalysis.                                                          *)

Returned(t) == [v |-> t, site |-> "none"]
Panicked(site) == [v |-> "panic", site |-> site]
NoRet == [v |-> "none", site |-> "none"]

\* The first operation of the three payoff evaluations, the sum and the
\* twin that overflows, in the order the code runs them; "none" if none does.
overflow_site(T, e, x, d) ==
    LET f_x == payoff(T, e, x)
        f_x_plus == payoff(T, e, add(T, x, d))
        f_x_minus == payoff(T, e, sub(T, x, d))
    IN  IF payoff_overflows(T, e, x) THEN "payoff"
        ELSE IF add_overflows(T, x, d) THEN "at + delta"
        ELSE IF payoff_overflows(T, e, add(T, x, d)) THEN "payoff"
        ELSE IF sub_overflows(T, x, d) THEN "at - delta"
        ELSE IF payoff_overflows(T, e, sub(T, x, d)) THEN "payoff"
        ELSE IF add_overflows(T, f_x_plus, f_x_minus) THEN "f_x_plus + f_x_minus"
        ELSE IF add_overflows(T, f_x, f_x) THEN "twin"
        ELSE "none"

\* The first comparison taken with >=: a tie is Antifragile.
classify_ge(T, B, e, x, d) ==
    LET f_x == payoff(T, e, x)
        f_x_plus == payoff(T, e, add(T, x, d))
        f_x_minus == payoff(T, e, sub(T, x, d))
        sum == add(T, f_x_plus, f_x_minus)
        twin_f_x == twin(T, f_x)
    IN  IF B = "debug" /\ overflow_site(T, e, x, d) # "none"
        THEN Panicked(overflow_site(T, e, x, d))
        ELSE IF ge(sum, twin_f_x) THEN Returned("Antifragile")
        ELSE IF lt(sum, twin_f_x) THEN Returned("Fragile")
        ELSE Returned("Robust")

\* The sum taken of payoff(at + delta) twice, payoff(at - delta) left out.
classify_one_sided(T, B, e, x, d) ==
    LET f_x == payoff(T, e, x)
        f_x_plus == payoff(T, e, add(T, x, d))
        sum == add(T, f_x_plus, f_x_plus)
        twin_f_x == twin(T, f_x)
    IN  IF B = "debug" /\ overflow_site(T, e, x, d) # "none"
        THEN Panicked(overflow_site(T, e, x, d))
        ELSE IF gt(sum, twin_f_x) THEN Returned("Antifragile")
        ELSE IF lt(sum, twin_f_x) THEN Returned("Fragile")
        ELSE Returned("Robust")

classify(T, B, e, x, d) ==
    LET f_x == payoff(T, e, x)
        f_x_plus == payoff(T, e, add(T, x, d))
        f_x_minus == payoff(T, e, sub(T, x, d))
        sum == add(T, f_x_plus, f_x_minus)
        twin_f_x == twin(T, f_x)
    IN  IF B = "debug" /\ overflow_site(T, e, x, d) # "none"
        THEN Panicked(overflow_site(T, e, x, d))
        ELSE IF gt(sum, twin_f_x) THEN Returned("Antifragile")
        ELSE IF lt(sum, twin_f_x) THEN Returned("Fragile")
        ELSE Returned("Robust")

classify_with_tolerance(T, B, e, x, d, eps) ==
    LET f_x == payoff(T, e, x)
        f_x_plus == payoff(T, e, add(T, x, d))
        f_x_minus == payoff(T, e, sub(T, x, d))
        sum == add(T, f_x_plus, f_x_minus)
        twin_f_x == twin(T, f_x)
        diff == IF ge(sum, twin_f_x) THEN sub(T, sum, twin_f_x)
                ELSE sub(T, twin_f_x, sum)
        diff_overflows == IF ge(sum, twin_f_x) THEN sub_overflows(T, sum, twin_f_x)
                          ELSE sub_overflows(T, twin_f_x, sum)
    IN  IF B = "debug" /\ overflow_site(T, e, x, d) # "none"
        THEN Panicked(overflow_site(T, e, x, d))
        ELSE IF B = "debug" /\ diff_overflows THEN Panicked("diff")
        ELSE IF le(diff, eps) THEN Returned("Robust")
        ELSE IF gt(sum, twin_f_x) THEN Returned("Antifragile")
        ELSE Returned("Fragile")

\* The points at which a call of classify (or classify_with_tolerance)
\* evaluates payoff, in the order of the evaluations: a call that panics stops
\* at the operation that overflows.
evaluated(T, B, e, x, d) ==
    IF B = "debug" /\ (payoff_overflows(T, e, x) \/ add_overflows(T, x, d))
    THEN <<x>>
    ELSE IF B = "debug" /\ (\/ payoff_overflows(T, e, add(T, x, d))
                            \/ sub_overflows(T, x, d))
    THEN <<x, add(T, x, d)>>
    ELSE <<x, add(T, x, d), sub(T, x, d)>>

\* The comparison of is_stable on the two payoffs: the smaller one is
\* subtracted from the larger one.
within(T, B, payoff_low, payoff_high, threshold) ==
    IF ge(payoff_high, payoff_low)
    THEN IF B = "debug" /\ sub_overflows(T, payoff_high, payoff_low)
         THEN Panicked("payoff_high - payoff_low")
         ELSE Returned(le(sub(T, payoff_high, payoff_low), threshold))
    ELSE IF B = "debug" /\ sub_overflows(T, payoff_low, payoff_high)
         THEN Panicked("payoff_low - payoff_high")
         ELSE Returned(le(sub(T, payoff_low, payoff_high), threshold))

is_stable(T, B, e, low, high, threshold) ==
    IF B = "debug" /\ (payoff_overflows(T, e, low) \/ payoff_overflows(T, e, high))
    THEN Panicked("payoff")
    ELSE within(T, B, payoff(T, e, low), payoff(T, e, high), threshold)

----------------------------------------------------------------------------
(* Verified<T>: an entity and its classification.  some tells a Verified   *)
(* value from the absence of one, whose other fields mean nothing.         *)

IsVerified(system, classification) ==
    [some |-> TRUE, inner |-> system, classification |-> classification]
NoVerified == [some |-> FALSE, inner |-> ConvexFn, classification |-> "Robust"]

CheckedAt(x, d) == [some |-> TRUE, at |-> x, delta |-> d]
NotChecked == [some |-> FALSE, at |-> Fin(0), delta |-> Fin(0)]

\* What an operation of Verified makes of the result c of classify: a
\* panic of classify is a panic of the operation.
Construct(system, c) ==
    IF c.v = "panic" THEN c ELSE Returned(IsVerified(system, c.v))
Assign(v, c) ==
    IF c.v = "panic" THEN c ELSE Returned([v EXCEPT !.classification = c.v])
Compare(v, c) ==
    IF c.v = "panic" THEN c ELSE Returned(c.v = v.classification)
CompareNe(v, c) ==
    IF c.v = "panic" THEN c ELSE Returned(c.v # v.classification)

\* The classification stored without the convexity test: Triad::default().
check_unclassified(T, B, system, x, d) ==
    Returned(IsVerified(system, "Robust"))

\* Verified::check: the Verified value, or the panic of classify.
check(T, B, system, x, d) ==
    Construct(system, classify(T, B, system, x, d))

classification(v) == v.classification
inner(v) == v.inner
into_inner(v) == v.inner
as_ref(v) == v.inner
deref(v) == v.inner

is_antifragile(v) == triad_is_antifragile(v.classification)
is_fragile(v) == triad_is_fragile(v.classification)
is_robust(v) == triad_is_robust(v.classification)

\* The stored classification left as it is.
re_verify_noop(T, B, v, x, d) == Returned(v)

\* Verified::re_verify: the Verified value as the call leaves it, or the
\* panic of classify.
re_verify(T, B, v, x, d) ==
    Assign(v, classify(T, B, v.inner, x, d))

\* The comparison inverted.
still_holds_ne(T, B, v, x, d) ==
    CompareNe(v, classify(T, B, v.inner, x, d))

\* The comparison dropped.
still_holds_true(T, B, v, x, d) == Returned(TRUE)

\* Verified::still_holds: the boolean, or the panic of classify.
still_holds(T, B, v, x, d) ==
    Compare(v, classify(T, B, v.inner, x, d))

----------------------------------------------------------------------------
(* The inputs the operations are applied to.                               *)

\* Overflow checks only matter to the integer types.
Builds(T) == IF T = "float" THEN {"release"} ELSE {"debug", "release"}

Near(T, n) == {p \in FiniteValues(T) : Abs(p.v) <= n}
Extremes(T) ==
    IF T = "float" THEN {Fin(-MaxFinite), Fin(MaxFinite), NaN, PInf, NInf}
    ELSE {Fin(MinInt(T)), Fin(MaxInt(T))}

\* Operating points, perturbations and tolerances are finite numbers; a payoff
\* may also be NaN or an infinity.
StressorInputs(T) == FiniteValues(T)
DeltaInputs(T) == Near(T, MaxDelta)
EpsilonInputs(T) == Near(T, MaxEpsilon)
GenericPayoffs(T) == {p \in FiniteValues(T) : p.v \in {-1, 0, 1}} \cup Extremes(T)
LinearParams(T) == Near(T, MaxParam)

SamplePoints(T, x, d) == {x, add(T, x, d), sub(T, x, d)}

Entities(T, x, d) ==
    {Generic(tbl) : tbl \in [SamplePoints(T, x, d) -> GenericPayoffs(T)]}
    \cup {ConvexFn}
    \cup {LinearFn(s, i) : s \in LinearParams(T), i \in LinearParams(T)}

----------------------------------------------------------------------------
(* The specification of the convexity tests: one call on drawn inputs.     *)

Init ==
    /\ ty \in NumTypes
    /\ build \in Builds(ty)
    /\ at \in StressorInputs(ty)
    /\ delta \in DeltaInputs(ty)
    /\ self \in Entities(ty, at, delta)
    /\ epsilon = Fin(0)
    /\ arg = << >>
    /\ op = "none"
    /\ pc = "call"
    /\ ret = NoRet
    /\ verified = NoVerified /\ checked = NotChecked /\ evals = << >>
    /\ NoService

Classify ==
    /\ pc = "call"
    /\ op' = "classify"
    /\ ret' = classify(ty, build, self, at, delta)
    /\ evals' = evaluated(ty, build, self, at, delta)
    /\ pc' = "ret"
    /\ UNCHANGED <<ty, build, self, at, delta, epsilon, arg, verified, checked>>
    /\ UNCHANGED service

ClassifyWithTolerance ==
    /\ pc = "call"
    /\ \E eps \in EpsilonInputs(ty) :
          /\ epsilon' = eps
          /\ ret' = classify_with_tolerance(ty, build, self, at, delta, eps)
    /\ evals' = evaluated(ty, build, self, at, delta)
    /\ op' = "classify_with_tolerance"
    /\ pc' = "ret"
    /\ UNCHANGED <<ty, build, self, at, delta, arg, verified, checked>>
    /\ UNCHANGED service

Next == Classify \/ ClassifyWithTolerance

Spec == Init /\ [][Next]_vars

----------------------------------------------------------------------------
(* The specification of the Triad operations: one call on a drawn argument.*)

Vecs == UNION {[1..n -> Triad] : n \in 0..MaxLen}

\* The strings parsed: every spelling of a token in upper and lower case, and
\* the strings one edit away from a spelling (a character replaced, removed,
\* or put in front or behind), the empty string among them.
to_ascii_uppercase(c) ==
    IF \E i \in 1..Len(AsciiLower) : AsciiLower[i] = c
    THEN AsciiUpper[CHOOSE i \in 1..Len(AsciiLower) : AsciiLower[i] = c]
    ELSE c
Letters == UNION {{str_from(t)[i] : i \in 1..Len(str_from(t))} : t \in Triad}
Chars ==
    Letters \cup {to_ascii_uppercase(c) : c \in Letters}
    \cup {" ", "-", "x", "K", "U+017F"}
Spellings(tok) ==
    {[i \in 1..Len(tok) |-> IF up[i] THEN to_ascii_uppercase(tok[i]) ELSE tok[i]] :
       up \in [1..Len(tok) -> BOOLEAN]}
Edits(s) ==
    {[s EXCEPT ![i] = c] : i \in 1..Len(s), c \in Chars}
    \cup {SubSeq(s, 1, i - 1) \o SubSeq(s, i + 1, Len(s)) : i \in 1..Len(s)}
    \cup {<<c>> \o s : c \in Chars}
    \cup {Append(s, c) : c \in Chars}
Strs ==
    UNION {Spellings(str_from(t)) : t \in Triad}
    \cup UNION {Edits(str_from(t)) : t \in Triad}
    \cup UNION {Edits([i \in 1..Len(str_from(t)) |->
                         to_ascii_uppercase(str_from(t)[i])]) : t \in Triad}
    \cup {<< >>, <<"i", "n", "v", "a", "l", "i", "d">>}

InitTriad ==
    /\ ty = "float" /\ build = "release" /\ self = ConvexFn
    /\ at = Fin(0) /\ delta = Fin(0) /\ epsilon = Fin(0)
    /\ \/ op = "sort" /\ arg \in Vecs
       \/ op = "try_from" /\ arg \in 0..U8Max
       \/ op = "u8_from" /\ arg \in Triad
       \/ op = "opposite" /\ arg \in Triad
       \/ op = "str_from" /\ arg \in Triad
       \/ op = "from_str" /\ arg \in Strs
    /\ pc = "call"
    /\ ret = NoRet
    /\ verified = NoVerified /\ checked = NotChecked /\ evals = << >>
    /\ NoService

Return(r) ==
    /\ ret' = r
    /\ pc' = "ret"
    /\ UNCHANGED <<ty, build, self, at, delta, epsilon, arg, op,
                   verified, checked, evals>>
    /\ UNCHANGED service

Sort == pc = "call" /\ op = "sort" /\ Return(sort(arg))
TryFrom == pc = "call" /\ op = "try_from" /\ Return(try_from(arg))
U8From == pc = "call" /\ op = "u8_from" /\ Return(u8_from(arg))
Opposite == pc = "call" /\ op = "opposite" /\ Return(opposite(arg))
StrFrom == pc = "call" /\ op = "str_from" /\ Return(str_from(arg))
FromStr == pc = "call" /\ op = "from_str" /\ Return(from_str(arg))

NextTriad == Sort \/ TryFrom \/ U8From \/ Opposite \/ StrFrom \/ FromStr

SpecTriad == InitTriad /\ [][NextTriad]_vars

----------------------------------------------------------------------------
(* The specification of Verified: operations on one Verified value, from   *)
(* its creation on.  A panic ends the run.                                 *)

\* The values a payoff can be evaluated at.
Domain(T) == IF T = "float" THEN FiniteValues(T) \cup {PInf, NInf} ELSE FiniteValues(T)

\* An entity whose payoff is v at the point p and zero elsewhere.
Spike(T, p, v) == Generic([x \in Domain(T) |-> IF x = p THEN v ELSE Fin(0)])

Upto(T, n) == {p \in FiniteValues(T) : 0 <= p.v /\ p.v <= n}

VerifiedEntities(T) ==
    {ConvexFn}
    \cup {LinearFn(s, Fin(1)) : s \in Upto(T, MaxPoint)}
    \cup {Spike(T, p, Fin(1)) : p \in Upto(T, MaxPoint)}
VerifiedAt(T) == Upto(T, MaxPoint)
VerifiedDelta(T) == Upto(T, MaxPoint)

InitVerified ==
    /\ ty \in NumTypes
    /\ build \in Builds(ty)
    /\ self = ConvexFn
    /\ at = Fin(0) /\ delta = Fin(0) /\ epsilon = Fin(0)
    /\ arg = << >>
    /\ op = "none"
    /\ pc = "call"
    /\ ret = NoRet
    /\ verified = NoVerified /\ checked = NotChecked /\ evals = << >>
    /\ NoService

\* The last operation has not panicked.
Running == ret.site = "none"

\* An operation o called with (x, d): it returns r, leaves v and c as the
\* Verified value and the point it was last checked at, and has evaluated
\* payoff at ev.
Call(o, x, d, r, v, c, ev) ==
    /\ op' = o
    /\ at' = x /\ delta' = d
    /\ ret' = r
    /\ verified' = v
    /\ checked' = c
    /\ evals' = ev
    /\ pc' = "ret"
    /\ UNCHANGED <<ty, build, epsilon, arg>>
    /\ UNCHANGED service

\* There is a Verified value to call an operation on.
Held == Running /\ verified.some

\* An operation that takes no operating point and returns r.
Get(o, r) ==
    /\ Call(o, Fin(0), Fin(0), Returned(r), verified, checked, << >>)
    /\ UNCHANGED self

\* An operation that stores a classification: r is the Verified value it
\* leaves, or its panic, in which case nothing is stored.
Store(o, x, d, r, unit, ev) ==
    IF r.site # "none"
    THEN Call(o, x, d, r, verified, checked, ev)
    ELSE Call(o, x, d, IF unit THEN Returned("()") ELSE r, r.v, CheckedAt(x, d), ev)

\* Verified::check(system, at, delta)
CheckOf(o, system, x, d) ==
    /\ Running /\ ~verified.some
    /\ self' = system
    /\ Store(o, x, d, check(ty, build, system, x, d), FALSE,
             evaluated(ty, build, system, x, d))

Check ==
    \E system \in VerifiedEntities(ty), x \in VerifiedAt(ty), d \in VerifiedDelta(ty) :
        CheckOf("check", system, x, d)

\* What T::default() can be: any entity, one with a constant payoff at the
\* top of the type's range among them.
DefaultEntities(T) ==
    VerifiedEntities(T)
    \cup {LinearFn(Fin(0), Fin(IF T = "float" THEN MaxFinite ELSE MaxInt(T)))}

\* Default::default(): check(T::default(), Stressor::default(), the same).
Default ==
    \E system \in DefaultEntities(ty) :
        CheckOf("default", system, Fin(0), Fin(0))

\* Deserialize, derived (feature serde): the two fields are read as they are
\* in the input.
Deserialize ==
    /\ Running /\ ~verified.some
    /\ \E system \in VerifiedEntities(ty), c \in Triad :
          /\ self' = system
          /\ Call("deserialize", Fin(0), Fin(0), Returned(IsVerified(system, c)),
                  IsVerified(system, c), NotChecked, << >>)

\* Clone, derived: a copy of both fields.
Clone == Held /\ Get("clone", verified)

Classification == Held /\ Get("classification", classification(verified))
IsAntifragile == Held /\ Get("is_antifragile", is_antifragile(verified))
IsFragile == Held /\ Get("is_fragile", is_fragile(verified))
IsRobust == Held /\ Get("is_robust", is_robust(verified))
Inner == Held /\ Get("inner", inner(verified))
AsRef == Held /\ Get("as_ref", as_ref(verified))
Deref == Held /\ Get("deref", deref(verified))

\* into_inner(self) consumes the Verified value.
IntoInner ==
    /\ Held
    /\ Call("into_inner", Fin(0), Fin(0), Returned(into_inner(verified)),
            NoVerified, NotChecked, << >>)
    /\ UNCHANGED self

\* classify called on the entity through Deref: verified.classify(at, delta).
ClassifyInner ==
    /\ Held
    /\ \E x \in VerifiedAt(ty), d \in VerifiedDelta(ty) :
          Call("classify", x, d, classify(ty, build, deref(verified), x, d),
               verified, checked, evaluated(ty, build, deref(verified), x, d))
    /\ UNCHANGED self

ReVerify ==
    /\ Held
    /\ \E x \in VerifiedAt(ty), d \in VerifiedDelta(ty) :
          Store("re_verify", x, d, re_verify(ty, build, verified, x, d), TRUE,
                evaluated(ty, build, verified.inner, x, d))
    /\ UNCHANGED self

StillHolds ==
    /\ Held
    /\ \E x \in VerifiedAt(ty), d \in VerifiedDelta(ty) :
          Call("still_holds", x, d, still_holds(ty, build, verified, x, d),
               verified, checked, evaluated(ty, build, verified.inner, x, d))
    /\ UNCHANGED self

NextVerified ==
    \/ Check \/ Default \/ Deserialize \/ Clone
    \/ Classification \/ IsAntifragile \/ IsFragile \/ IsRobust
    \/ Inner \/ AsRef \/ Deref \/ IntoInner
    \/ ClassifyInner \/ ReVerify \/ StillHolds

SpecVerified == InitVerified /\ [][NextVerified]_vars

----------------------------------------------------------------------------
(* The specification of is_stable: one call on drawn inputs.               *)

StablePoints(T) == Near(T, MaxParam)

StableEntities(T, low, high) ==
    {Generic(tbl) : tbl \in [{low, high} -> GenericPayoffs(T)]}
    \cup {ConvexFn}
    \cup {LinearFn(s, i) : s \in LinearParams(T), i \in LinearParams(T)}

InitStable ==
    /\ ty \in NumTypes
    /\ build \in Builds(ty)
    /\ arg \in [low : StablePoints(ty), high : StablePoints(ty)]
    /\ epsilon \in EpsilonInputs(ty)
    /\ self \in StableEntities(ty, arg.low, arg.high)
    /\ at = Fin(0) /\ delta = Fin(0)
    /\ op = "none"
    /\ pc = "call"
    /\ ret = NoRet
    /\ verified = NoVerified /\ checked = NotChecked /\ evals = << >>
    /\ NoService

IsStable ==
    /\ pc = "call"
    /\ op' = "is_stable"
    /\ ret' = is_stable(ty, build, self, arg.low, arg.high, epsilon)
    /\ evals' = IF build = "debug" /\ payoff_overflows(ty, self, arg.low)
                THEN <<arg.low>> ELSE <<arg.low, arg.high>>
    /\ pc' = "ret"
    /\ UNCHANGED <<ty, build, self, at, delta, epsilon, arg, verified, checked>>
    /\ UNCHANGED service

NextStable == IsStable

SpecStable == InitStable /\ [][NextStable]_vars

----------------------------------------------------------------------------
(* The example service (src/examples/adaptive-pricing-api).                *)
(*                                                                         *)
(* AdaptiveCache keeps its entries in a DashMap.  Each DashMap method      *)
(* (get_mut, insert, remove, len, retain, iter, clear) is one atomic step; *)
(* a cache method that calls several of them can be interleaved with the   *)
(* other threads between two of them.                                      *)
(*                                                                         *)
(* A product id is modelled by its length and the options by their number; *)
(* time is counted in ticks of the clock.                                  *)

\* The cache as constructed by with_ttl_and_capacity(ttl, max_capacity).
ttl == 1
max_capacity == 1

\* The threads sharing the cache, the queries they use and the number of
\* calls of a run.
MaxThreads == 3
MaxKeys == 3
MaxCalls == 3

\* The clock runs until an entry stored at the start has expired.
MaxTime == ttl

PriceQuery(product_id, quantity, options) ==
    [product_id |-> product_id, quantity |-> quantity, options |-> options]
NoQuery == PriceQuery(0, 0, 0)

\* calculate_quantity_discount, in percent.
calculate_quantity_discount(quantity) ==
    IF quantity <= 10 THEN 0
    ELSE IF quantity <= 50 THEN 5
    ELSE IF quantity <= 100 THEN 10
    ELSE IF quantity <= 500 THEN 15
    ELSE 20

\* calculate_price, in cents: the product ids and options drawn are not in
\* the price lists, so the base price is the default 20.00 and the options
\* cost nothing.
calculate_price(query) ==
    20 * query.quantity * (100 - calculate_quantity_discount(query.quantity))

NoEntry == [present |-> FALSE, result |-> 0, created_at |-> 0, hit_count |-> 0]
CacheEntry(result, created_at) ==
    [present |-> TRUE, result |-> result, created_at |-> created_at,
     hit_count |-> 0]

\* Option<PriceResult>
Some(result) == [some |-> TRUE, result |-> result]
None == [some |-> FALSE, result |-> 0]

\* DashMap::len
len(m) == Cardinality({k \in DOMAIN m : m[k].present})

\* entry.created_at.elapsed()
elapsed(e, t) == t - e.created_at

\* An entry whose age has reached the TTL still counted as live.
unexpired_inclusive(e, t) == elapsed(e, t) <= ttl

\* entry.created_at.elapsed() < self.ttl
unexpired(e, t) == elapsed(e, t) < ttl

\* entry.hit_count += 1
hit(m, k) == [m EXCEPT ![k].hit_count = @ + 1]

\* DashMap::remove
remove(m, k) == [m EXCEPT ![k] = NoEntry]

\* DashMap::insert of a new CacheEntry
store(m, k, result, t) == [m EXCEPT ![k] = CacheEntry(result, t)]

\* AdaptiveCache::cleanup: retain the entries that have not expired.
cleanup(m, t) ==
    [k \in DOMAIN m |->
        IF m[k].present /\ unexpired(m[k], t) THEN m[k] ELSE NoEntry]

\* evict_oldest: the keys min_by_key(created_at) can yield; the DashMap
\* iterates in no particular order, so among equally old entries any.
oldest(m) ==
    {k \in DOMAIN m :
        /\ m[k].present
        /\ \A j \in DOMAIN m : m[j].present => m[k].created_at <= m[j].created_at}

\* DashMap::clear
clear(m) == [k \in DOMAIN m |-> NoEntry]

\* A thread: the call it is in (op), its position in it (pc) and its locals.
NoStats == [total_requests |-> 0, cache_hits |-> 0, cache_misses |-> 0]
Idle ==
    [op |-> "none", pc |-> "idle", query |-> NoQuery, result |-> 0,
     victim |-> NoQuery, cache_hit |-> FALSE, count |-> 0, stats |-> NoStats]

Threads == 1..MaxThreads
Keys == {PriceQuery(p, 1, 0) : p \in 1..MaxKeys}

\* Idle threads do not differ: the call is made by the first of them.
Free(t) ==
    /\ task[t].pc = "idle"
    /\ \A u \in DOMAIN task : u < t => task[u].pc # "idle"

\* Thread t goes on at position p, its locals as in l.
Goto(t, l, p) == task' = [task EXCEPT ![t] = [l EXCEPT !.pc = p]]

\* The call o(a) returns r to its caller.
Returns(o, a, r) ==
    /\ op' = o /\ arg' = a /\ ret' = Returned(r) /\ pc' = "ret"

\* A step inside a call: nothing is returned yet.
Inside == UNCHANGED <<op, arg, ret, pc>>

\* Thread t has finished the cache method o: a thread that called it
\* directly is idle again with r returned, the /price handler goes on at p.
Finish(t, o, r, l, p) ==
    IF task[t].op = "price"
    THEN Goto(t, l, p) /\ Inside
    ELSE /\ task' = [task EXCEPT ![t] = Idle]
         /\ Returns(o, l.query, r)

InitCache ==
    /\ entries = [k \in Keys |-> NoEntry]
    /\ now = 0
    /\ task = [t \in Threads |-> Idle]
    /\ calls = 0
    /\ counters = NoStats
    /\ history = << >>
    /\ ty = "unsigned" /\ build = "release" /\ self = ConvexFn
    /\ at = Fin(0) /\ delta = Fin(0) /\ epsilon = Fin(0)
    /\ verified = NoVerified /\ checked = NotChecked /\ evals = << >>
    /\ arg = NoQuery /\ op = "none" /\ pc = "call" /\ ret = NoRet

\* get, at self.entries.get_mut(query): a live entry is counted and served;
\* an expired one is released, to be removed next; none is a miss.
Lookup(t, k, l) ==
    IF entries[k].present /\ unexpired(entries[k], now)
    THEN /\ entries' = hit(entries, k)
         /\ Finish(t, "get", Some(entries[k].result),
                   [l EXCEPT !.result = entries[k].result, !.cache_hit = TRUE],
                   "record_cache_hit")
    ELSE IF entries[k].present
    THEN /\ Goto(t, l, "get_remove")
         /\ Inside
         /\ UNCHANGED entries
    ELSE /\ Finish(t, "get", None, l, "record_cache_miss")
         /\ UNCHANGED entries

\* A thread calls get(query).
GetOf(t, k) ==
    /\ Free(t) /\ calls < MaxCalls
    /\ calls' = calls + 1
    /\ Lookup(t, k, [Idle EXCEPT !.op = "get", !.query = k])
    /\ UNCHANGED <<engine, now, counters, history>>

CacheGet(t) ==
    /\ Free(t)
    /\ \E k \in Keys : GetOf(t, k)

\* get, at self.entries.remove(query), then None.
GetRemove(t) ==
    /\ task[t].pc = "get_remove"
    /\ entries' = remove(entries, task[t].query)
    /\ Finish(t, "get", None, task[t], "record_cache_miss")
    /\ UNCHANGED <<engine, now, calls, counters, history>>

\* insert, at the first self.entries.len() >= self.max_capacity.
Capacity(t, l) ==
    /\ Goto(t, l, IF len(entries) >= max_capacity THEN "insert_cleanup"
                  ELSE "insert_store")
    /\ Inside
    /\ UNCHANGED entries

\* A thread calls insert(query, result).
CacheInsert(t) ==
    /\ Free(t) /\ calls < MaxCalls
    /\ calls' = calls + 1
    /\ \E k \in Keys :
          Capacity(t, [Idle EXCEPT !.op = "insert", !.query = k,
                                   !.result = calculate_price(k)])
    /\ UNCHANGED <<engine, now, counters, history>>

\* insert, at self.cleanup().
InsertCleanup(t) ==
    /\ task[t].pc = "insert_cleanup"
    /\ entries' = cleanup(entries, now)
    /\ Goto(t, task[t], "insert_recheck")
    /\ Inside
    /\ UNCHANGED <<engine, now, calls, counters, history>>

\* insert, at the second self.entries.len() >= self.max_capacity.
InsertRecheck(t) ==
    /\ task[t].pc = "insert_recheck"
    /\ Goto(t, task[t], IF len(entries) >= max_capacity THEN "evict_oldest"
                        ELSE "insert_store")
    /\ Inside
    /\ UNCHANGED <<engine, entries, now, calls, counters, history>>

\* evict_oldest, at the iteration that finds the oldest key.
EvictOldest(t) ==
    /\ task[t].pc = "evict_oldest"
    /\ IF oldest(entries) = {}
       THEN Goto(t, task[t], "insert_store")
       ELSE \E k \in oldest(entries) :
               Goto(t, [task[t] EXCEPT !.victim = k], "evict_remove")
    /\ Inside
    /\ UNCHANGED <<engine, entries, now, calls, counters, history>>

\* evict_oldest, at self.entries.remove(&key).
EvictRemove(t) ==
    /\ task[t].pc = "evict_remove"
    /\ entries' = remove(entries, task[t].victim)
    /\ Goto(t, [task[t] EXCEPT !.victim = NoQuery], "insert_store")
    /\ Inside
    /\ UNCHANGED <<engine, now, calls, counters, history>>

\* insert, at self.entries.insert(query, CacheEntry { .. }).
InsertStore(t) ==
    /\ task[t].pc = "insert_store"
    /\ entries' = store(entries, task[t].query, task[t].result, now)
    /\ Finish(t, "insert", None, task[t], "record_request")
    /\ UNCHANGED <<engine, now, calls, counters, history>>

\* cleanup(), called by the background task of main or by any thread.
Cleanup ==
    /\ calls < MaxCalls
    /\ calls' = calls + 1
    /\ entries' = cleanup(entries, now)
    /\ Inside
    /\ UNCHANGED <<engine, now, task, counters, history>>

\* clear()
Clear ==
    /\ calls < MaxCalls
    /\ calls' = calls + 1
    /\ entries' = clear(entries)
    /\ Inside
    /\ UNCHANGED <<engine, now, task, counters, history>>

\* Time passes.
Tick ==
    /\ now < MaxTime
    /\ now' = now + 1
    /\ Inside
    /\ UNCHANGED <<engine, entries, task, calls, counters, history>>

NextCache ==
    \/ \E t \in Threads :
          \/ CacheGet(t) \/ GetRemove(t)
          \/ CacheInsert(t) \/ InsertCleanup(t) \/ InsertRecheck(t)
          \/ EvictOldest(t) \/ EvictRemove(t) \/ InsertStore(t)
    \/ Cleanup \/ Clear \/ Tick

SpecCache == InitCache /\ [][NextCache]_vars

----------------------------------------------------------------------------
(* The example service: ServiceMetrics.  The counters are read and written *)
(* under one lock and the history under another: each locked section is    *)
(* one atomic step.  The response times and the Prometheus counter,        *)
(* histogram and gauges that record_request also sets are written only and *)
(* bear on nothing else: they are left out.                                *)

\* record_history_entry: a history entry every history_period requests, and
\* history_drain entries dropped when there are more than history_limit
\* (100, 1000 and 100 in the source).
history_period == 2
history_limit == 1
history_drain == 1

\* The threads calling ServiceMetrics, and the calls of record_cache_hit or
\* record_cache_miss they make.
MaxRecorders == 2
MaxHits == 1

\* The calls of record_request of a run: enough to overfill the history.
MaxRecorded == history_period * (history_limit + 1)

\* A ratio a / b of two counters, kept exact.
Ratio(a, b) == [num |-> a, den |-> b]
RatioLess(p, q) == p.num * q.den < q.num * p.den

\* c.total_requests += 1 left out.
record_request_uncounted(c) == c

\* record_request: c.total_requests += 1
record_request(c) == [c EXCEPT !.total_requests = @ + 1]

\* record_cache_hit: self.counters.write().cache_hits += 1
record_cache_hit(c) == [c EXCEPT !.cache_hits = @ + 1]

\* record_cache_miss: self.counters.write().cache_misses += 1
record_cache_miss(c) == [c EXCEPT !.cache_misses = @ + 1]

\* get_stats: the three counters as read under the lock (ServiceStats, and
\* the ServiceSnapshot built from it).
get_stats(c) ==
    [total_requests |-> c.total_requests, cache_hits |-> c.cache_hits,
     cache_misses |-> c.cache_misses]

\* get_stats: cache_hit_rate, 0.0 before the first hit or miss.
cache_hit_rate(s) ==
    IF s.cache_hits + s.cache_misses > 0
    THEN Ratio(s.cache_hits, s.cache_hits + s.cache_misses)
    ELSE Ratio(0, 1)

\* ServiceSnapshot: the hit rate observed, 0.0 before the first request.
observed_hit_rate(s) ==
    IF s.total_requests > 0 THEN Ratio(s.cache_hits, s.total_requests)
    ELSE Ratio(0, 1)

\* ServiceSnapshot::exponent: 0.7 + hit_rate * 0.6
exponent(s) ==
    Ratio(7 * observed_hit_rate(s).den + 6 * observed_hit_rate(s).num,
          10 * observed_hit_rate(s).den)

\* record_history_entry: Fragile below 0.95, Antifragile above 1.05.
classify_exponent(e) ==
    IF RatioLess(e, Ratio(95, 100)) THEN "Fragile"
    ELSE IF RatioLess(Ratio(105, 100), e) THEN "Antifragile"
    ELSE "Robust"

HistoryEntry(s) ==
    [total_requests |-> s.total_requests, cache_hit_rate |-> cache_hit_rate(s),
     classification |-> classify_exponent(exponent(s))]

\* The entry pushed, nothing ever dropped.
push_unbounded(h, entry) == Append(h, entry)

\* record_history_entry: history.push(entry), then the drain.
push(h, entry) ==
    IF Len(h) + 1 > history_limit
    THEN SubSeq(Append(h, entry), history_drain + 1, Len(h) + 1)
    ELSE Append(h, entry)

Recorders == 1..MaxRecorders

InitMetrics ==
    /\ entries = [k \in Keys |-> NoEntry]
    /\ now = 0
    /\ task = [t \in Recorders |-> Idle]
    /\ calls = 0
    /\ counters = NoStats
    /\ history = << >>
    /\ ty = "unsigned" /\ build = "release" /\ self = ConvexFn
    /\ at = Fin(0) /\ delta = Fin(0) /\ epsilon = Fin(0)
    /\ verified = NoVerified /\ checked = NotChecked /\ evals = << >>
    /\ arg = NoQuery /\ op = "none" /\ pc = "call" /\ ret = NoRet

\* Thread t has finished record_request, and with it the /price handler if
\* it was called from there.
Respond(t, l) ==
    /\ task' = [task EXCEPT ![t] = Idle]
    /\ IF l.op = "price"
       THEN Returns("price", l.query,
                    [status |-> 200, price |-> l.result,
                     cache_hit |-> l.cache_hit])
       ELSE Returns("record_request", NoQuery, None)

\* record_request, at the counters' write lock: the request is counted, and
\* the count decides whether a history entry follows.
Counted(t, l) ==
    /\ counters' = record_request(counters)
    /\ IF record_request(counters).total_requests % history_period = 0
       THEN /\ Goto(t, [l EXCEPT !.count =
                            record_request(counters).total_requests],
                    "history_stats")
            /\ Inside
       ELSE Respond(t, l)

\* A thread calls record_request(duration).
RecordRequestCall(t) ==
    /\ Free(t) /\ counters.total_requests < MaxRecorded
    /\ Counted(t, [Idle EXCEPT !.op = "record_request"])
    /\ UNCHANGED <<engine, entries, now, calls, history>>

\* record_history_entry, at self.get_stats().
HistoryStats(t) ==
    /\ task[t].pc = "history_stats"
    /\ Goto(t, [task[t] EXCEPT !.stats = get_stats(counters)], "history_push")
    /\ Inside
    /\ UNCHANGED <<engine, entries, now, calls, counters, history>>

\* record_history_entry, at the history's write lock: push and drain.
HistoryPush(t) ==
    /\ task[t].pc = "history_push"
    /\ history' = push(history, HistoryEntry(task[t].stats))
    /\ Respond(t, task[t])
    /\ UNCHANGED <<engine, entries, now, calls, counters>>

\* A thread calls record_cache_hit().
RecordCacheHitCall ==
    /\ counters.cache_hits + counters.cache_misses < MaxHits
    /\ counters' = record_cache_hit(counters)
    /\ Returns("record_cache_hit", NoQuery, None)
    /\ UNCHANGED <<engine, entries, now, task, calls, history>>

\* A thread calls record_cache_miss().
RecordCacheMissCall ==
    /\ counters.cache_hits + counters.cache_misses < MaxHits
    /\ counters' = record_cache_miss(counters)
    /\ Returns("record_cache_miss", NoQuery, None)
    /\ UNCHANGED <<engine, entries, now, task, calls, history>>

\* A thread, or one of the /antifragile and /cache handlers, calls
\* get_stats().
GetStats ==
    /\ Returns("get_stats", NoQuery, get_stats(counters))
    /\ UNCHANGED <<engine, service>>

\* A thread, or the /antifragile/history handler, calls get_history().
GetHistory ==
    /\ Returns("get_history", NoQuery, history)
    /\ UNCHANGED <<engine, service>>

NextMetrics ==
    \/ \E t \in Recorders :
          RecordRequestCall(t) \/ HistoryStats(t) \/ HistoryPush(t)
    \/ RecordCacheHitCall \/ RecordCacheMissCall
    \/ GetStats \/ GetHistory

SpecMetrics == InitMetrics /\ [][NextMetrics]_vars

----------------------------------------------------------------------------
(* The example service: the /price handler (calculate_price_handler) over  *)
(* the cache and the metrics of AppState, run by several requests at once, *)
(* with the background cleanup of main and the handlers that read the      *)
(* metrics.                                                                *)

\* The limits of the request validation.
MaxQuantity == 100000
MaxProductIdLen == 128
MaxOptions == 20

\* The requests served at once.
MaxHandlers == 2

\* The validation of calculate_price_handler.
valid(request) ==
    /\ ~(request.quantity = 0 \/ request.quantity > MaxQuantity)
    /\ ~(request.product_id > MaxProductIdLen)
    /\ ~(request.options > MaxOptions)

\* PriceQuery { .. }.normalized(): the cache key of the request.  (normalized
\* is not among the sources; the key is the query of the request's fields.)
query_of(request) ==
    PriceQuery(request.product_id, request.quantity, request.options)

\* The requests posted: two that pass the validation, at its limits, and one
\* beyond each limit.
ValidRequests ==
    {PriceQuery(1, 1, 0), PriceQuery(MaxProductIdLen, MaxQuantity, MaxOptions)}
Requests ==
    ValidRequests
    \cup {PriceQuery(1, 0, 0), PriceQuery(1, MaxQuantity + 1, 0),
          PriceQuery(MaxProductIdLen + 1, 1, 0), PriceQuery(1, 1, MaxOptions + 1)}

BadRequest == [status |-> 400, price |-> 0, cache_hit |-> FALSE]

Handlers == 1..MaxHandlers

InitService ==
    /\ entries = [k \in {query_of(r) : r \in ValidRequests} |-> NoEntry]
    /\ now = 0
    /\ task = [t \in Handlers |-> Idle]
    /\ calls = 0
    /\ counters = NoStats
    /\ history = << >>
    /\ ty = "unsigned" /\ build = "release" /\ self = ConvexFn
    /\ at = Fin(0) /\ delta = Fin(0) /\ epsilon = Fin(0)
    /\ verified = NoVerified /\ checked = NotChecked /\ evals = << >>
    /\ arg = NoQuery /\ op = "none" /\ pc = "call" /\ ret = NoRet

\* POST /price: the validation, and the query built.
PriceOf(t, request) ==
    /\ Free(t) /\ calls < MaxCalls
    /\ calls' = calls + 1
    /\ IF valid(request)
       THEN /\ Goto(t, [Idle EXCEPT !.op = "price", !.query = query_of(request)],
                    "get")
            /\ Inside
       ELSE /\ Returns("price", request, BadRequest)
            /\ UNCHANGED task
    /\ UNCHANGED <<engine, entries, now, counters, history>>

Price(t) ==
    /\ Free(t)
    /\ \E request \in Requests : PriceOf(t, request)

\* state.cache.get(&query)
PriceGet(t) ==
    /\ task[t].pc = "get"
    /\ Lookup(t, task[t].query, task[t])
    /\ UNCHANGED <<engine, now, calls, counters, history>>

\* state.metrics.record_cache_hit()
RecordCacheHit(t) ==
    /\ task[t].pc = "record_cache_hit"
    /\ counters' = record_cache_hit(counters)
    /\ Goto(t, task[t], "record_request")
    /\ Inside
    /\ UNCHANGED <<engine, entries, now, calls, history>>

\* state.metrics.record_cache_miss(), then calculate_price(&query).await
RecordCacheMiss(t) ==
    /\ task[t].pc = "record_cache_miss"
    /\ counters' = record_cache_miss(counters)
    /\ Goto(t, [task[t] EXCEPT !.result = calculate_price(task[t].query)],
            "insert")
    /\ Inside
    /\ UNCHANGED <<engine, entries, now, calls, history>>

\* state.cache.insert(query, result.clone())
PriceInsert(t) ==
    /\ task[t].pc = "insert"
    /\ Capacity(t, task[t])
    /\ UNCHANGED <<engine, now, calls, counters, history>>

\* state.metrics.record_request(elapsed)
RecordRequest(t) ==
    /\ task[t].pc = "record_request"
    /\ Counted(t, task[t])
    /\ UNCHANGED <<engine, entries, now, calls, history>>

\* GET /antifragile/status: the snapshot is built from get_stats().
AntifragileStatus ==
    /\ calls < MaxCalls
    /\ calls' = calls + 1
    /\ Returns("get_stats", NoQuery, get_stats(counters))
    /\ UNCHANGED <<engine, entries, now, task, counters, history>>

NextService ==
    \/ \E t \in Handlers :
          \/ Price(t) \/ PriceGet(t) \/ GetRemove(t)
          \/ RecordCacheHit(t) \/ RecordCacheMiss(t)
          \/ PriceInsert(t) \/ InsertCleanup(t) \/ InsertRecheck(t)
          \/ EvictOldest(t) \/ EvictRemove(t) \/ InsertStore(t)
          \/ RecordRequest(t) \/ HistoryStats(t) \/ HistoryPush(t)
    \/ Cleanup \/ Tick
    \/ AntifragileStatus

SpecService == InitService /\ [][NextService]_vars

----------------------------------------------------------------------------
(* What the claims are stated over: the call that has returned, and the    *)
(* quantities of the convexity test recomputed from the entity.            *)

Called(o) == pc = "ret" /\ op = o
ReturnedTriad == ret.v \in Triad

Sum == add(ty, payoff(ty, self, add(ty, at, delta)),
               payoff(ty, self, sub(ty, at, delta)))
TwinFx == twin(ty, payoff(ty, self, at))

\* Every intermediate value of the convexity test of ConvexFn or LinearFn is
\* the exact integer: nothing is rounded, nothing overflows.
ExactPayoff(x) ==
    IF self.fn = "ConvexFn" THEN x * x ELSE self.slope.v * x + self.intercept.v
ExactCall ==
    LET xp == at.v + delta.v
        xm == at.v - delta.v
    IN  /\ self.fn \in {"ConvexFn", "LinearFn"}
        /\ \A n \in {xp, xm, ExactPayoff(at.v), ExactPayoff(xp), ExactPayoff(xm),
                     ExactPayoff(xp) + ExactPayoff(xm), 2 * ExactPayoff(at.v)} :
              Representable(ty, n)
        /\ self.fn = "LinearFn" =>
              \A x \in {at.v, xp, xm} : Representable(ty, self.slope.v * x)

\* |sum - twin_fx| <= epsilon on the values themselves.
AbsDiffWithin ==
    IF Sum.k = "fin" /\ TwinFx.k = "fin" /\ epsilon.k = "fin"
    THEN Abs(Sum.v - TwinFx.v) <= epsilon.v
    ELSE le(IF ge(Sum, TwinFx) THEN sub(ty, Sum, TwinFx) ELSE sub(ty, TwinFx, Sum),
            epsilon)

----------------------------------------------------------------------------
(* C1. classify returns Antifragile exactly when                           *)
(* payoff(at+delta) + payoff(at-delta) > twin(payoff(at)), Fragile exactly *)
(* when that sum is < twin(payoff(at)), and Robust exactly when the two    *)
(* are equal.  This is the claim as stated; it fails for a payoff that is  *)
(* unordered (NaN), where classify falls through to Robust.                *)
C1_Original ==
    (Called("classify") /\ ReturnedTriad) =>
        /\ ret.v = "Antifragile" <=> gt(Sum, TwinFx)
        /\ ret.v = "Fragile" <=> lt(Sum, TwinFx)
        /\ ret.v = "Robust" <=> eq(Sum, TwinFx)

(* C1, amended.  classify returns Antifragile exactly when the sum is      *)
(* > twin(payoff(at)), Fragile exactly when it is < twin(payoff(at)), and  *)
(* Robust exactly when it is neither: the two are equal or unordered.      *)
C1_Classify ==
    (Called("classify") /\ ReturnedTriad) =>
        /\ ret.v = "Antifragile" <=> gt(Sum, TwinFx)
        /\ ret.v = "Fragile" <=> lt(Sum, TwinFx)
        /\ ret.v = "Robust" <=> (~gt(Sum, TwinFx) /\ ~lt(Sum, TwinFx))

\* classify has returned Robust on a sum that is unordered with the twin.
C1_Witness ==
    /\ Called("classify") /\ ret.v = "Robust"
    /\ self.fn = "Generic" /\ delta # Fin(0)
    /\ ~Ordered(Sum, TwinFx)

(* C2. Zero-delta law: classify(at, 0) is Robust for every operating point *)
(* and any outcome function.  It fails where classify itself panics (C3):  *)
(* under overflow checks f_x_plus + f_x_minus overflows for a large        *)
(* payoff.  (A panic of the entity's own payoff is not counted.)           *)
C2_ZeroDelta ==
    (Called("classify") /\ delta = Fin(0)) =>
        (ret.v = "Robust" \/ ret.site = "payoff")

(* C3. classify has no error conditions: for integer Stressor and Payoff   *)
(* of bounded width too it returns one of the three Triad values and never *)
(* panics.  (A panic of the entity's own payoff is not counted.)           *)
C3_Total ==
    Called("classify") => (ReturnedTriad \/ ret.site = "payoff")

(* C4. For payoff(x) = x*x, classify(at, delta) is Antifragile for every   *)
(* at and every nonzero delta.  This is the claim as stated; it fails      *)
(* where at +- delta or a square is rounded or overflows.                  *)
C4_Original ==
    (Called("classify") /\ self.fn = "ConvexFn" /\ delta # Fin(0))
        => ret.v = "Antifragile"

(* C4, amended.  For payoff(x) = x*x, classify(at, delta) is Antifragile   *)
(* for every at and every nonzero delta for which at + delta, at - delta,  *)
(* the three squares, their sum and the twin are computed exactly.         *)
C4_Quadratic ==
    (Called("classify") /\ self.fn = "ConvexFn" /\ delta # Fin(0) /\ ExactCall)
        => ret.v = "Antifragile"

\* The quadratic classified at a negative operating point, computed exactly.
C4_Witness ==
    /\ Called("classify") /\ self.fn = "ConvexFn"
    /\ delta # Fin(0) /\ at.v < 0 /\ ExactCall
    /\ ret.v = "Antifragile"

(* C5. For payoff(x) = slope*x + intercept, classify(at, delta) is Robust  *)
(* for all at and delta.  This is the claim as stated; it fails where a    *)
(* floating point intermediate is rounded.                                 *)
C5_Original ==
    (Called("classify") /\ self.fn = "LinearFn") => ret.v = "Robust"

(* C5, amended.  For payoff(x) = slope*x + intercept, classify(at, delta)  *)
(* is Robust for all at and delta for which at + delta, at - delta, the    *)
(* three payoffs, their sum and the twin are computed exactly.             *)
C5_Affine ==
    (Called("classify") /\ self.fn = "LinearFn" /\ ExactCall) => ret.v = "Robust"

\* A sloped line classified at a nonzero perturbation, computed exactly.
C5_Witness ==
    /\ Called("classify") /\ self.fn = "LinearFn"
    /\ self.slope # Fin(0) /\ self.intercept # Fin(0) /\ delta # Fin(0)
    /\ ExactCall
    /\ ret.v = "Robust"

(* C6. classify_with_tolerance returns Robust exactly when                 *)
(* |sum - twin_fx| <= epsilon; otherwise Antifragile when sum > twin_fx    *)
(* and Fragile in the remaining case.  The code's difference wraps around  *)
(* for signed integers, so it fails there.                                 *)
C6_Tolerance ==
    (Called("classify_with_tolerance") /\ ReturnedTriad) =>
        /\ ret.v = "Robust" <=> AbsDiffWithin
        /\ ~AbsDiffWithin => (ret.v = "Antifragile" <=> gt(Sum, TwinFx))

(* C7. Tolerance only ever demotes to Robust: for every non-negative       *)
(* epsilon, classify_with_tolerance(at, delta, epsilon) is either Robust   *)
(* or equal to classify(at, delta).                                        *)
C7_OnlyDemotes ==
    (Called("classify_with_tolerance") /\ ge(epsilon, Fin(0))) =>
        \/ ret.v = "Robust"
        \/ ret = classify(ty, build, self, at, delta)

(* C8. rank is a bijection from the three variants onto {0,1,2} with       *)
(* Fragile=0, Robust=1, Antifragile=2; the ordering of Triad agrees with   *)
(* rank; and sorting any arrangement of Triad values yields all Fragile,   *)
(* then all Robust, then all Antifragile, the same values as before.       *)
C8_RankOrder ==
    /\ Cardinality(Triad) = 3
    /\ {rank(t) : t \in Triad} = 0..2
    /\ rank("Fragile") = 0 /\ rank("Robust") = 1 /\ rank("Antifragile") = 2
    /\ \A a, b \in Triad :
          /\ cmp(a, b) = "Less" <=> rank(a) < rank(b)
          /\ cmp(a, b) = "Equal" <=> a = b
          /\ a = b <=> rank(a) = rank(b)
    /\ Called("sort") =>
          /\ Len(ret) = Len(arg)
          /\ \A t \in Triad :
                Cardinality({i \in 1..Len(ret) : ret[i] = t})
                    = Cardinality({i \in 1..Len(arg) : arg[i] = t})
          /\ \A i, j \in 1..Len(ret) :
                i < j => ret[i] = "Fragile" \/ ret[j] = "Antifragile" \/ ret[i] = ret[j]

\* The arrangement of test_triad_ordering, sorted.
C8_Witness ==
    /\ Called("sort")
    /\ arg = <<"Antifragile", "Fragile", "Robust">>
    /\ ret = <<"Fragile", "Robust", "Antifragile">>

C11_InvalidByte ==
    (Called("try_from") /\ arg \in 3..U8Max) =>
        ret.tag = "Err" /\ ret.v = arg /\ ret.tag # "Ok"

\* try_from has rejected the largest byte.
C11_Witness ==
    Called("try_from") /\ arg = U8Max /\ ret = Err(U8Max)

\* The three tokens, and two characters being the same ASCII letter in
\* either case.
Tokens ==
    [Fragile |-> <<"f", "r", "a", "g", "i", "l", "e">>,
     Robust |-> <<"r", "o", "b", "u", "s", "t">>,
     Antifragile |-> <<"a", "n", "t", "i", "f", "r", "a", "g", "i", "l", "e">>]
SameIgnoringCase(c, d) ==
    c = d \/ \E i \in 1..Len(AsciiLower) : {c, d} = {AsciiLower[i], AsciiUpper[i]}
IsSpellingOf(s, tok) ==
    Len(s) = Len(tok) /\ \A i \in 1..Len(s) : SameIgnoringCase(s[i], tok[i])

(* C12. Parsing a string to Triad succeeds exactly when the string equals, *)
(* ignoring ASCII case, one of the tokens "fragile", "robust",             *)
(* "antifragile", and then yields the variant whose canonical lowercase    *)
(* token (<&str>::from) is that token, so token -> Triad -> token is the   *)
(* identity for the three lowercase tokens; every other string, the empty  *)
(* string included, fails with ParseTriadError.                            *)
C12_Parse ==
    /\ Called("from_str") =>
          /\ \A t \in Triad :
                IsSpellingOf(arg, Tokens[t]) =>
                    ret = Ok(t) /\ IsSpellingOf(arg, str_from(ret.v))
          /\ (\A t \in Triad : ~IsSpellingOf(arg, Tokens[t])) =>
                ret = Err(ParseTriadError)
          /\ (\E t \in Triad : arg = Tokens[t]) =>
                ret.tag = "Ok" /\ str_from(ret.v) = arg
          /\ arg = << >> => ret = Err(ParseTriadError)
    /\ Called("str_from") => ret = Tokens[arg] /\ from_str(ret) = Ok(arg)

\* "ROBUST" has been parsed.
C12_Witness ==
    /\ Called("from_str")
    /\ arg = <<"R", "O", "B", "U", "S", "T">>
    /\ ret = Ok("Robust")

(* C13. opposite maps Antifragile to Fragile, Fragile to Antifragile and   *)
(* Robust to Robust, and is an involution: opposite(opposite(x)) = x for   *)
(* all three variants, with Robust its only fixed point.                   *)
C13_Opposite ==
    Called("opposite") =>
        /\ arg = "Antifragile" => ret = "Fragile"
        /\ arg = "Fragile" => ret = "Antifragile"
        /\ arg = "Robust" => ret = "Robust"
        /\ opposite(ret) = arg
        /\ ret = arg <=> arg = "Robust"

\* opposite has been applied to Antifragile.
C13_Witness ==
    Called("opposite") /\ arg = "Antifragile" /\ ret = "Fragile"

\* classify of the wrapped entity at (x, d).
ClassifyWrapped(x, d) == classify(ty, build, verified.inner, x, d).v

(* C14. Verified::check(entity, at, delta) stores the entity together with *)
(* exactly the value entity.classify(at, delta): right after check,        *)
(* classification() is the direct classify result at the same (at, delta)  *)
(* and is_antifragile / is_fragile / is_robust agree with that value.      *)
C14_Check ==
    /\ (Called("check") /\ Running) =>
          /\ verified = IsVerified(self, classify(ty, build, self, at, delta).v)
          /\ ret.v = verified
          /\ classification(verified) = classify(ty, build, self, at, delta).v
          /\ is_antifragile(verified) = (classification(verified) = "Antifragile")
          /\ is_fragile(verified) = (classification(verified) = "Fragile")
          /\ is_robust(verified) = (classification(verified) = "Robust")
    /\ Called("classification") => ret.v = verified.classification
    /\ Called("is_antifragile") => ret.v = (verified.classification = "Antifragile")
    /\ Called("is_fragile") => ret.v = (verified.classification = "Fragile")
    /\ Called("is_robust") => ret.v = (verified.classification = "Robust")

\* check has wrapped ConvexFn where it is Antifragile.
C14_Witness ==
    /\ Called("check") /\ Running
    /\ self = ConvexFn /\ delta # Fin(0)
    /\ verified = IsVerified(ConvexFn, "Antifragile")

(* C15. In any sequence of operations on a Verified value the stored       *)
(* classification changes only in a re_verify step, and at every point it  *)
(* is classify of the wrapped entity at the (at, delta) of the most recent *)
(* check or re_verify; still_holds at that (at, delta) returns true.       *)
C15_Stored ==
    /\ [](/\ (verified.some /\ checked.some) =>
               verified.classification = ClassifyWrapped(checked.at, checked.delta)
          /\ (/\ Called("still_holds") /\ Running /\ checked.some
              /\ at = checked.at /\ delta = checked.delta) => ret.v = TRUE)
    /\ [][(/\ verified.some /\ verified'.some
            /\ verified'.classification # verified.classification)
              => op' = "re_verify"]_vars

\* still_holds has been asked at the point of the last check or re_verify,
\* where the entity is Antifragile.
C15_Witness ==
    /\ Called("still_holds") /\ Running /\ checked.some
    /\ at = checked.at /\ delta = checked.delta
    /\ verified.classification = "Antifragile"
    /\ ret.v = TRUE

(* C16. re_verify(at, delta) overwrites the stored classification with     *)
(* classify(at, delta) of the wrapped entity, and leaves the wrapped       *)
(* entity as it was.                                                       *)
C16_ReVerify ==
    /\ [](( Called("re_verify") /\ Running) =>
            verified.classification = ClassifyWrapped(at, delta))
    /\ [][op' = "re_verify" => verified'.inner = verified.inner]_vars

\* re_verify has stored Fragile.
C16_Witness ==
    /\ Called("re_verify") /\ Running
    /\ delta # Fin(0)
    /\ verified.classification = "Fragile"

(* C17. still_holds(at, delta) returns true exactly when classify of the   *)
(* wrapped entity at (at, delta) equals the stored classification, and it  *)
(* changes neither the stored classification nor the entity, whatever its  *)
(* result.                                                                 *)
C17_StillHolds ==
    /\ []((Called("still_holds") /\ Running) =>
            ret.v = (ClassifyWrapped(at, delta) = verified.classification))
    /\ [][op' = "still_holds" => verified' = verified]_vars

\* still_holds has returned false.
C17_Witness ==
    Called("still_holds") /\ Running /\ ret.v = FALSE

(* C18. Every Verified value that can exist, however it was obtained       *)
(* (check, Default, Clone, deserialization), holds a classification that   *)
(* classify computed on its own entity at some (at, delta).  It fails for  *)
(* a deserialized value, whose classification is read from the input.      *)
C18_OnlyByCheck ==
    /\ verified.some =>
          /\ checked.some
          /\ verified.classification = ClassifyWrapped(checked.at, checked.delta)
    /\ Called("clone") => ret.v = verified

\* The number of times p occurs in a sequence of points.
Count(seq, p) == Cardinality({i \in 1..Len(seq) : seq[i] = p})

(* C19. classify, and with it check, re_verify and still_holds, evaluates  *)
(* payoff exactly three times, at at - delta, at and at + delta;           *)
(* classification() and the predicates of Verified evaluate it zero times. *)
(* It fails where classify itself panics (C3) before the third evaluation. *)
(* (A panic of the entity's own payoff is not counted.)                    *)
C19_Evaluations ==
    /\ (pc = "ret" /\ op \in {"classify", "check", "default", "re_verify",
                               "still_holds"}) =>
          \/ ret.site = "payoff"
          \/ /\ Len(evals) = 3
             /\ \A p \in {at, add(ty, at, delta), sub(ty, at, delta)} :
                   Count(evals, p) =
                   Count(<<sub(ty, at, delta), at, add(ty, at, delta)>>, p)
    /\ (pc = "ret" /\ op \in {"classification", "is_antifragile", "is_fragile",
                               "is_robust"}) =>
          evals = << >>

(* C20. is_stable(low, high, threshold) is true exactly when               *)
(* |payoff(high) - payoff(low)| <= threshold; it is symmetric in low and   *)
(* high, and it never forms a negative difference.  It fails for a signed  *)
(* integer payoff when the difference overflows.  (A panic of the entity's *)
(* own payoff is not counted.)                                             *)
C20_Stable ==
    Called("is_stable") =>
        LET payoff_low == payoff(ty, self, arg.low)
            payoff_high == payoff(ty, self, arg.high)
            difference == IF ge(payoff_high, payoff_low)
                          THEN sub(ty, payoff_high, payoff_low)
                          ELSE sub(ty, payoff_low, payoff_high)
        IN  \/ ret.site = "payoff"
            \/ /\ ret.site = "none"
               /\ ret.v = (/\ payoff_low.k = "fin" /\ payoff_high.k = "fin"
                           /\ Abs(payoff_high.v - payoff_low.v) <= epsilon.v)
               /\ is_stable(ty, build, self, arg.high, arg.low, epsilon) = ret
               /\ ~lt(difference, Fin(0))

(* C21. The number of stored entries never exceeds max_capacity + 1,     *)
(* whatever the interleaving of insert, get and cleanup calls, inserts     *)
(* issued concurrently from several threads included.                     *)
C21_Capacity == len(entries) <= max_capacity + 1

(* C22. get(query) returns a result only if an entry for query exists and  *)
(* its age is strictly less than the TTL, and then that entry's hit_count  *)
(* goes up by one; for an entry whose age has reached the TTL it returns   *)
(* None with the entry removed, and for no entry it returns None.          *)
C22_Get ==
    [][\A t \in Threads :
          /\ \A k \in Keys :
                GetOf(t, k) =>
                    IF entries[k].present /\ elapsed(entries[k], now) < ttl
                    THEN /\ op' = "get" /\ arg' = k
                         /\ ret' = Returned(Some(entries[k].result))
                         /\ task'[t].pc = "idle"
                         /\ entries' =
                              [entries EXCEPT ![k].hit_count = @ + 1]
                    ELSE IF entries[k].present
                    THEN /\ task'[t].pc = "get_remove" /\ task'[t].query = k
                         /\ UNCHANGED <<entries, ret>>
                    ELSE /\ op' = "get" /\ arg' = k /\ ret' = Returned(None)
                         /\ task'[t].pc = "idle"
                         /\ UNCHANGED entries
          /\ GetRemove(t) =>
                /\ op' = "get" /\ arg' = task[t].query /\ ret' = Returned(None)
                /\ task'[t].pc = "idle"
                /\ ~entries'[task[t].query].present
      ]_vars

\* get has served an entry, and its hit_count has gone from zero to one.
C22_Witness ==
    /\ Called("get") /\ ret.v.some
    /\ entries[arg].present /\ entries[arg].hit_count = 1
    /\ ret.v.result = entries[arg].result

C24_HitRate ==
    Called("get_stats") =>
        /\ ret.v.cache_hits <= ret.v.total_requests
        /\ ~RatioLess(exponent(ret.v), Ratio(7, 10))
        /\ ~RatioLess(Ratio(13, 10), exponent(ret.v))

\* The handlers that have recorded their hit or miss and not yet their
\* request.
Recorded ==
    {t \in DOMAIN task :
        task[t].pc \in {"record_request", "insert", "insert_cleanup",
                        "insert_recheck", "evict_oldest", "evict_remove",
                        "insert_store"}}

C26_History ==
    /\ [](/\ Len(history) <= history_limit
          /\ Called("get_history") => Len(ret.v) <= history_limit)
    /\ [][history' # history =>
            \E t \in DOMAIN task :
                /\ HistoryPush(t)
                /\ task[t].op \in {"record_request", "price"}
                /\ task[t].count % history_period = 0
                /\ task[t].count <= counters.total_requests
                /\ LET pushed == Append(history, HistoryEntry(task[t].stats))
                   IN  IF Len(pushed) > history_limit
                       THEN history' =
                               [i \in 1..(Len(pushed) - history_drain) |->
                                   pushed[i + history_drain]]
                       ELSE history' = pushed
         ]_vars

\* get_history has returned a full history whose newest entry was pushed
\* after the history had overflowed: the oldest entries have been dropped.
C26_Witness ==
    /\ Called("get_history")
    /\ Len(ret.v) = history_limit
    /\ ret.v[Len(ret.v)].total_requests >= history_period * (history_limit + 1)

(* C27. With tolerance zero and a totally ordered Payoff type (the integer *)
(* types), classify_with_tolerance(at, delta, 0) returns the same Triad as *)
(* classify(at, delta) for every entity, operating point and delta.  It    *)
(* fails for signed integers, where the difference sum - twin_f_x of the   *)
(* tolerance test wraps around or panics (C6).                             *)
C27_ZeroTolerance ==
    (/\ Called("classify_with_tolerance")
     /\ ty \in {"signed", "unsigned"}
     /\ epsilon = Fin(0)
     /\ classify(ty, build, self, at, delta).site = "none")
        => ret = classify(ty, build, self, at, delta)

(* C28. Verified::default() is check(T::default(), at, at) with            *)
(* at = Stressor::default(), and for the numeric types, whose default is   *)
(* the additive zero, the classification it stores is Robust whatever the  *)
(* payoff.  It fails where classify itself panics (C3): under overflow     *)
(* checks f_x_plus + f_x_minus overflows for a large payoff.  (A panic of  *)
(* the entity's own payoff is not counted.)                                *)
C28_Default ==
    Called("default") =>
        /\ at = Fin(0) /\ delta = Fin(0)
        /\ \/ ret.site = "payoff"
           \/ /\ ret.site = "none"
              /\ verified = IsVerified(self, "Robust")
              /\ checked = CheckedAt(Fin(0), Fin(0))

\* -delta, as the caller of classify computes it.
NegDelta == sub(ty, Fin(0), delta)

(* C29. Sign symmetry: for a signed Stressor type (a signed integer or a   *)
(* float) classify(at, delta) and classify(at, -delta) have the same       *)
(* outcome for every entity, operating point and delta whose negation is   *)
(* representable: the same Triad, or a panic of both.  Likewise            *)
(* classify_with_tolerance with the same epsilon.                          *)
C29_SignSymmetry ==
    /\ (/\ Called("classify")
        /\ ty \in {"signed", "float"}
        /\ ~sub_overflows(ty, Fin(0), delta))
          => ret.v = classify(ty, build, self, at, NegDelta).v
    /\ (/\ Called("classify_with_tolerance")
        /\ ty \in {"signed", "float"}
        /\ ~sub_overflows(ty, Fin(0), delta))
          => ret.v = classify_with_tolerance(ty, build, self, at, NegDelta,
                                             epsilon).v

\* classify has returned Antifragile for a payoff that differs at the two
\* sample points, with a negative delta.
C29_Witness ==
    /\ Called("classify") /\ ty = "signed" /\ delta.v < 0
    /\ self.fn = "Generic"
    /\ payoff(ty, self, add(ty, at, delta)) # payoff(ty, self, sub(ty, at, delta))
    /\ ret.v = "Antifragile"
    /\ classify(ty, build, self, at, NegDelta).v = "Antifragile"

\* The entity g with payoff_g(x) = -payoff_f(x), f the entity of the call,
\* and the default twin.
Negation ==
    Generic([x \in SamplePoints(ty, at, delta) |->
                sub(ty, Fin(0), payoff(ty, self, x))])

\* Nothing overflows: not in the call on f, not in negating its payoffs, not
\* in the call on g.
NoOverflow ==
    /\ overflow_site(ty, self, at, delta) = "none"
    /\ \A x \in SamplePoints(ty, at, delta) :
          ~sub_overflows(ty, Fin(0), payoff(ty, self, x))
    /\ overflow_site(ty, Negation, at, delta) = "none"

(* C30. Negation duality: for entities f and g over a signed integer       *)
(* payoff with payoff_g(x) = -payoff_f(x) and the default twin,            *)
(* classify_g(at, delta) = opposite(classify_f(at, delta)) for all at and  *)
(* delta, where nothing overflows.                                         *)
C30_Negation ==
    (Called("classify") /\ ty = "signed" /\ NoOverflow) =>
        classify(ty, build, Negation, at, delta) = Returned(opposite(ret.v))

\* A concave f at a nonzero delta, and its negation classified convex.
C30_Witness ==
    /\ Called("classify") /\ ty = "signed" /\ NoOverflow
    /\ delta # Fin(0)
    /\ self.fn = "Generic"
    /\ ret.v = "Fragile"
    /\ classify(ty, build, Negation, at, delta).v = "Antifragile"



====
